---- MODULE Spec2Model ----
(***************************************************************************)
(* whatismyschema: NumberDiscover.discover (the per-column classifier) and *)
(* SchemaDiscovery.run (read the CSV, classify every column, emit the      *)
(* CREATE TABLE statement).                                                *)
(*                                                                         *)
(* A Python str is a sequence of one-character strings.  A Python int has  *)
(* no size limit; it is kept as its canonical decimal text, str(n): an     *)
(* optional "-" and digits without leading zeros, and compared digit by    *)
(* digit, so no machine width bounds the values.                           *)
(* The alphabet of the cells is: digits, ".", "+", "-", "e", "E", " ",     *)
(* "*" and the letters of nan, inf, NA.                                    *)
(***************************************************************************)
EXTENDS Integers, Sequences, FiniteSets, TLC

VARIABLES null, file, df, pc, tpc, idx, acc, ret, types, completed, calls, sql

vars == <<null, file, df, pc, tpc, idx, acc, ret, types, completed, calls, sql>>

---------------------------------------------------------------------------
(* Bounds of the model *)

\* longest column given to one discover call
MaxLen == 3

\* most columns in a table
MaxCols == 2

---------------------------------------------------------------------------
(* Python str operations *)

\* F(x) with x evaluated once, as an assignment to a local evaluates its
\* right-hand side once
Bind(x, F(_)) == CHOOSE r \in {F(y) : y \in {x}} : TRUE

Digit == {"0", "1", "2", "3", "4", "5", "6", "7", "8", "9"}

DigitVal(c) ==
  CASE c = "0" -> 0 [] c = "1" -> 1 [] c = "2" -> 2 [] c = "3" -> 3
    [] c = "4" -> 4 [] c = "5" -> 5 [] c = "6" -> 6 [] c = "7" -> 7
    [] c = "8" -> 8 [] c = "9" -> 9

\* the characters a..b of s, none when a > b
Slice(s, a, b) == IF a > b THEN <<>> ELSE SubSeq(s, a, b)

\* c * n: the character c repeated n times
Repeat(c, n) == [i \in 1..n |-> c]

\* least index of a character of set cs in s, 0 when none (str.find + 1)
Find(s, cs) ==
  IF \E i \in 1..Len(s) : s[i] \in cs
  THEN CHOOSE i \in 1..Len(s) : s[i] \in cs /\ \A j \in 1..(i - 1) : s[j] \notin cs
  ELSE 0

\* least index of a character other than c in s, Len(s) + 1 when none
FirstNot(s, c) ==
  IF \E i \in 1..Len(s) : s[i] # c
  THEN CHOOSE i \in 1..Len(s) : s[i] # c /\ \A j \in 1..(i - 1) : s[j] = c
  ELSE Len(s) + 1

\* greatest index of a character other than c in s, 0 when none
LastNot(s, c) ==
  IF \E i \in 1..Len(s) : s[i] # c
  THEN CHOOSE i \in 1..Len(s) : s[i] # c /\ \A j \in (i + 1)..Len(s) : s[j] = c
  ELSE 0

\* s.rstrip(c)
RStrip(s, c) == Slice(s, 1, LastNot(s, c))

\* s.lstrip(c)
LStrip(s, c) == Slice(s, FirstNot(s, c), Len(s))

\* s.strip(): the whitespace of the alphabet is the blank
Strip(s) == Bind(RStrip(s, " "), LAMBDA t : LStrip(t, " "))

LowerChar(c) ==
  CASE c = "N" -> "n" [] c = "A" -> "a" [] c = "E" -> "e"
    [] c = "I" -> "i" [] c = "F" -> "f" [] OTHER -> c

\* s.lower()
Lower(s) == [i \in 1..Len(s) |-> LowerChar(s[i])]

\* one digit or more
IsDigits(s) == Len(s) > 0 /\ \A i \in 1..Len(s) : s[i] \in Digit

\* no character other than a digit
AllDigits(s) == \A i \in 1..Len(s) : s[i] \in Digit

HasSign(s) == Len(s) > 0 /\ s[1] \in {"+", "-"}

HasMinus(s) == Len(s) > 0 /\ s[1] = "-"

Unsigned(s) == IF HasSign(s) THEN Tail(s) ELSE s

\* s cut at its k-th character, a dot; whole when k = 0
SplitAt(s, k) == IF k = 0 THEN <<s>> ELSE <<Slice(s, 1, k - 1), Slice(s, k + 1, Len(s))>>

\* v.split('.', 1)
Split(v) == Bind(Find(v, {"."}), LAMBDA k : SplitAt(v, k))

---------------------------------------------------------------------------
(* Python numbers *)

\* m, whose first dot is at k, is digits [ "." [digits] ] or "." digits
MantissaAt(m, k) ==
  IF k = 0
  THEN IsDigits(m)
  ELSE /\ AllDigits(Slice(m, 1, k - 1))
       /\ AllDigits(Slice(m, k + 1, Len(m)))
       /\ Len(m) > 1

\* the mantissa float() and Decimal() take
IsMantissa(m) == Bind(Find(m, {"."}), LAMBDA k : MantissaAt(m, k))

\* u, whose first exponent marker is at k, is a number float() converts
FloatAt(u, k) ==
  \/ Lower(u) \in {<<"i", "n", "f">>, <<"n", "a", "n">>,
                   <<"i", "n", "f", "i", "n", "i", "t", "y">>}
  \/ /\ k = 0
     /\ IsMantissa(u)
  \/ /\ k > 0
     /\ IsMantissa(Slice(u, 1, k - 1))
     /\ IsDigits(Unsigned(Slice(u, k + 1, Len(u))))

\* inf, infinity, nan in any case, or a mantissa with an optional exponent
\* whose marker is e or E
FloatBody(u) == Bind(Find(u, {"e", "E"}), LAMBDA k : FloatAt(u, k))

\* float(x) raises no ValueError: blanks around, a sign, a FloatBody
FloatParses(x) == Bind(Unsigned(Strip(x)), FloatBody)

is_number(x) == FloatParses(x)

\* a loop without the not-a-number test
IsNaNNever(v) == FALSE

\* math.isnan(float(v)), for a v that float() converts
IsNaN(v) == Lower(Unsigned(Strip(v))) = <<"n", "a", "n">>

\* 'e' in v
HasLowerE(v) == \E i \in 1..Len(v) : v[i] = "e"

\* the value of a short digit string
RECURSIVE NatOf(_)
NatOf(s) == IF s = <<>> THEN 0 ELSE 10 * NatOf(Slice(s, 1, Len(s) - 1)) + DigitVal(s[Len(s)])

\* the value of a signed exponent
ExpValue(x) == IF HasMinus(x) THEN 0 - NatOf(Tail(x)) ELSE NatOf(Unsigned(x))

\* digits without leading zeros, "0" for zero
Canon(ds) == IF FirstNot(ds, "0") > Len(ds) THEN <<"0">> ELSE LStrip(ds, "0")

\* the Decimal of sign neg, mantissa m with its dot at d, and exponent xv:
\* the coefficient holds every digit of the mantissa
MantissaDecimal(neg, m, d, xv) ==
  IF d = 0
  THEN [neg |-> neg, int |-> Canon(m), exp |-> xv]
  ELSE [neg |-> neg,
        int |-> Canon(Slice(m, 1, d - 1) \o Slice(m, d + 1, Len(m))),
        exp |-> xv - (Len(m) - d)]

\* the Decimal of sign neg and unsigned text u, exponent marker at k
DecimalAt(neg, u, k) ==
  IF k = 0
  THEN MantissaDecimal(neg, u, Find(u, {"."}), 0)
  ELSE Bind(Slice(u, 1, k - 1),
            LAMBDA m : MantissaDecimal(neg, m, Find(m, {"."}),
                                       ExpValue(Slice(u, k + 1, Len(u)))))

\* Decimal(v) for a finite number: sign, coefficient and exponent, exact
DecimalOf(v) ==
  Bind(Strip(v),
       LAMBDA t : Bind(Unsigned(t),
                       LAMBDA u : DecimalAt(HasMinus(t), u, Find(u, {"e", "E"}))))

\* the digits before the point
IntPart(int, dotplace) ==
  IF dotplace < 0 THEN <<"0">>
  ELSE IF dotplace > Len(int) THEN int \o Repeat("0", dotplace - Len(int))
  ELSE IF dotplace = 0 THEN <<"0">>
  ELSE Slice(int, 1, dotplace)

\* the digits after the point
FracPart(int, dotplace) ==
  IF dotplace < 0 THEN Repeat("0", 0 - dotplace) \o int
  ELSE IF dotplace > Len(int) THEN <<>>
  ELSE Slice(int, dotplace + 1, Len(int))

\* the point and the digits after it, nothing when there is none
WithPoint(fracpart) == IF fracpart = <<>> THEN <<>> ELSE <<".">> \o fracpart

\* a zero with a positive exponent is rescaled to exponent 0
Rescaled(d) == IF d.int = <<"0">> /\ d.exp > 0 THEN [d EXCEPT !.exp = 0] ELSE d

\* the text of Decimal d with the point at dotplace
Placed(d, dotplace) ==
  (IF d.neg THEN <<"-">> ELSE <<>>)
    \o IntPart(d.int, dotplace) \o WithPoint(FracPart(d.int, dotplace))

\* format(d, 'f'): no exponent, the point at len(coefficient) + exponent
FormatF(d0) == Bind(Rescaled(d0), LAMBDA d : Placed(d, d.exp + Len(d.int)))

\* format(Decimal(v), 'f')
DecimalFormatF(v) == Bind(DecimalOf(v), FormatF)

\* int(s) raises no ValueError: blanks around, a sign, digits
IntParses(s) == IsDigits(Unsigned(Strip(s)))

\* the canonical text of the integer of sign neg and canonical digits d
Signed(neg, d) == IF neg /\ d # <<"0">> THEN <<"-">> \o d ELSE d

\* str(int(s)): the value int(s) returns, as canonical text
IntOf(s) == Bind(Strip(s), LAMBDA t : Signed(HasMinus(t), Canon(Unsigned(t))))

IsNeg(a) == a[1] = "-"

\* a < b for natural numbers in canonical text
NatLess(a, b) ==
  \/ Len(a) < Len(b)
  \/ /\ Len(a) = Len(b)
     /\ \E i \in 1..Len(a) :
          /\ DigitVal(a[i]) < DigitVal(b[i])
          /\ \A j \in 1..(i - 1) : a[j] = b[j]

\* a < b for Python ints in canonical text
IntLess(a, b) ==
  CASE IsNeg(a) /\ ~IsNeg(b) -> TRUE
    [] ~IsNeg(a) /\ IsNeg(b) -> FALSE
    [] IsNeg(a) /\ IsNeg(b) -> NatLess(Tail(b), Tail(a))
    [] OTHER -> NatLess(a, b)

\* a <= b
IntLeq(a, b) == a = b \/ IntLess(a, b)

---------------------------------------------------------------------------
(* NumberDiscover.discover *)

Lit(kind) == <<kind>>

\* the outcome of a call that ends in an uncaught ValueError
ValueError == Lit("ValueError")

\* f"decimal({precision}, {scale})"
DecimalType(precision, scale) == <<"decimal", precision, scale>>

\* the locals of discover before the loop; st is "run" while the loop goes
\* on, "return" after a return statement, "raise" after an exception
InitAcc ==
  [st |-> "run", ret |-> Lit("none"),
   pre_dot_max_length |-> 0, post_dot_max_length |-> 0,
   number_of_nulls |-> 0, max_pre |-> <<"0">>, min_pre |-> <<"0">>]

\* the null test of the loop
IsEmpty(v) == Len(v) = 0

\* the value after the scientific-notation expansion
Expand(v) == IF HasLowerE(v) THEN DecimalFormatF(v) ELSE v

\* the text before the dot, "0" when it is implicit
PreDotString(splitted) == IF splitted[1] = <<>> THEN <<"0">> ELSE splitted[1]

\* str(pre) without its sign
PreS(pre) == IF pre[1] \in {"-", "+"} THEN Tail(pre) ELSE pre

\* the length of the text after the dot with its trailing zeros kept
PostDotLengthKeepZeros(splitted) ==
  IF Len(splitted) > 1 /\ Len(splitted[2]) > 0
  THEN Len(RStrip(splitted[2], " "))
  ELSE 0

\* the length of the text after the dot, trailing blanks and zeros removed;
\* 0 when there is no such text
PostDotLength(splitted) ==
  IF Len(splitted) > 1 /\ Len(splitted[2]) > 0
  THEN Len(RStrip(RStrip(splitted[2], " "), "0"))
  ELSE 0

\* the value is counted as a null and skipped
CountNull(a) == [a EXCEPT !.number_of_nulls = a.number_of_nulls + 1]

\* return t
Return(a, t) == [a EXCEPT !.st = "return", !.ret = t]

\* an exception leaves the call
Throw(a, e) == [a EXCEPT !.st = "raise", !.ret = e]

\* max_pre, min_pre and the two maximal lengths after a value of integer
\* part pre
Track(a, pre, pre_number_of_digits, post_dot_length) ==
  [a EXCEPT
     !.max_pre = IF IntLess(a.max_pre, pre) THEN pre ELSE a.max_pre,
     !.min_pre = IF IntLess(pre, a.min_pre) THEN pre ELSE a.min_pre,
     !.pre_dot_max_length =
        IF pre_number_of_digits > a.pre_dot_max_length
        THEN pre_number_of_digits ELSE a.pre_dot_max_length,
     !.post_dot_max_length =
        IF post_dot_length > a.post_dot_max_length
        THEN post_dot_length ELSE a.post_dot_max_length]

\* the loop body from pre = int(pre_dot_string) on
Measure(a, splitted, pre_dot_string) ==
  IF ~IntParses(pre_dot_string)
  THEN Throw(a, ValueError)
  ELSE Bind(IntOf(pre_dot_string),
            LAMBDA pre : Track(a, pre, Len(PreS(pre)), PostDotLength(splitted)))

\* one iteration of the loop over the values
LoopBody(a, v0) ==
  IF IsEmpty(v0) THEN CountNull(a)
  ELSE IF ~is_number(v0) THEN Return(a, Lit("string"))
  ELSE IF IsNaN(v0) THEN CountNull(a)
  ELSE Bind(Split(Expand(v0)),
            LAMBDA splitted : Bind(PreDotString(splitted),
                                   LAMBDA pre_dot_string :
                                     Measure(a, splitted, pre_dot_string)))

\* -bound < min_pre and max_pre <= upper
Fits(a, lower, upper) == IntLess(lower, a.min_pre) /\ IntLeq(a.max_pre, upper)

\* the integer branch of the decision
IntegerType(a) ==
  IF Fits(a, <<"-", "1", "2", "8">>, <<"1", "2", "7">>) THEN Lit("tinyint")
  ELSE IF Fits(a, <<"-", "3", "2", "7", "6", "8">>, <<"3", "2", "7", "6", "7">>)
  THEN Lit("smallint")
  ELSE IF Fits(a, <<"-", "2", "1", "4", "7", "4", "8", "3", "6", "4", "8">>,
                  <<"2", "1", "4", "7", "4", "8", "3", "6", "4", "7">>)
  THEN Lit("int")
  ELSE Lit("bigint")

\* every value was a null
AllNull(a, n) == a.number_of_nulls = n

\* the statements after the loop, n = len(values)
PostScan(a, n) ==
  IF AllNull(a, n) THEN Lit("tinyint")
  ELSE IF a.post_dot_max_length = 0 THEN IntegerType(a)
  ELSE DecimalType(a.pre_dot_max_length + a.post_dot_max_length, a.post_dot_max_length)

\* the locals after one more value, if the loop is still going on
Advance(a, v) == IF a.st = "run" THEN LoopBody(a, v) ELSE a

\* the locals after the first k values
RECURSIVE Scan(_, _)
Scan(values, k) ==
  IF k = 0 THEN InitAcc
  ELSE Bind(Scan(values, k - 1), LAMBDA a : Advance(a, values[k]))

\* the outcome of a call whose loop has ended with locals a
Outcome(a, n) == IF a.st = "run" THEN PostScan(a, n) ELSE a.ret

\* the outcome of discover(values): the descriptor returned, or ValueError
discover(values) == Bind(Scan(values, Len(values)), LAMBDA a : Outcome(a, Len(values)))

---------------------------------------------------------------------------
(* SchemaDiscovery: the table, the reader, the per-column tasks *)

S0  == <<>>
S1  == <<"1">>
SNA == <<"N", "A">>

\* the column names a header is made of, unique
ColumnNames == <<"c1", "c2", "c3", "c4">>

\* the header of a table of n columns
Header(n) == [c \in 1..n |-> ColumnNames[c]]

\* the na_filter argument __read_csv passes to pandas.read_csv
na_filter == FALSE

\* what a cell stands for in the DataFrame once a missing-value marker is
\* detected: the float nan, which is no str
NaNObject == <<"float", "nan">>

\* one cell as pandas.read_csv(dtype=str, na_values, na_filter) reads it:
\* with na_filter off no missing-value marker is looked for, na_values is
\* not consulted and the text of the cell is kept
ReadCell(cell, na_values) ==
  IF na_filter /\ (cell \in na_values \/ cell = <<>>) THEN NaNObject ELSE cell

\* __read_csv: the DataFrame of a file, column by column
read_csv(f, nul) ==
  [columns |-> f.header,
   data |-> [c \in 1..Len(f.data) |->
               [r \in 1..Len(f.data[c]) |-> ReadCell(f.data[c][r], {nul})]]]

NoFrame == [columns |-> <<>>, data |-> <<>>]

Cols == 1..Len(file.header)

\* results appended in the order the tasks complete
ResultSlotByCompletion(c, k) == k + 1

\* the slot of the result Series that the task of column c fills when it
\* is the (k + 1)-th task to complete: the slot of its own column
ResultSlot(c, k) == c

Unset == Lit("unset")

\* every column has been classified
AllDone == \A c \in Cols : tpc[c] = "done"

\* __to_sql over the Series: one line per item, in the order of the Series
SqlLines(cols, ts) == [i \in 1..Len(ts) |-> <<cols[i], ts[i]>>]

\* run() reads the file
ReadCsv ==
  /\ pc = "read"
  /\ df' = read_csv(file, null)
  /\ pc' = "discover"
  /\ UNCHANGED <<null, file, tpc, idx, acc, ret, types, completed, calls, sql>>

\* apply() calls discover on column c
Call(c) ==
  /\ pc = "discover"
  /\ tpc[c] = "idle"
  /\ tpc' = [tpc EXCEPT ![c] = "loop"]
  /\ calls' = [calls EXCEPT ![c] = calls[c] + 1]
  /\ acc' = [acc EXCEPT ![c] = InitAcc]
  /\ idx' = [idx EXCEPT ![c] = 0]
  /\ UNCHANGED <<null, file, df, pc, ret, types, completed, sql>>

\* the task of column c ends with descriptor t
Complete(c, t) ==
  /\ tpc' = [tpc EXCEPT ![c] = "done"]
  /\ ret' = [ret EXCEPT ![c] = t]
  /\ types' = [types EXCEPT ![ResultSlot(c, Len(completed))] = t]
  /\ completed' = Append(completed, c)
  /\ pc' = pc

\* the task of column c ends in an exception, and so does run()
Raise(c, e) ==
  /\ tpc' = [tpc EXCEPT ![c] = "raised"]
  /\ ret' = [ret EXCEPT ![c] = e]
  /\ pc' = "raised"
  /\ UNCHANGED <<types, completed>>

\* one iteration of the loop of discover on column c
Iterate(c) ==
  /\ pc = "discover"
  /\ tpc[c] = "loop"
  /\ idx[c] < Len(df.data[c])
  /\ \E a \in {LoopBody(acc[c], df.data[c][idx[c] + 1])} :
       /\ acc' = [acc EXCEPT ![c] = a]
       /\ idx' = [idx EXCEPT ![c] = idx[c] + 1]
       /\ IF a.st = "return" THEN Complete(c, a.ret)
          ELSE IF a.st = "raise" THEN Raise(c, a.ret)
          ELSE UNCHANGED <<pc, tpc, ret, types, completed>>
  /\ UNCHANGED <<null, file, df, calls, sql>>

\* the statements after the loop of discover on column c
Decide(c) ==
  /\ pc = "discover"
  /\ tpc[c] = "loop"
  /\ idx[c] = Len(df.data[c])
  /\ Complete(c, PostScan(acc[c], Len(df.data[c])))
  /\ UNCHANGED <<null, file, df, idx, acc, calls, sql>>

\* apply() has every result; __to_sql renders the Series
ToSql ==
  /\ pc = "discover"
  /\ AllDone
  /\ IF Len(types) < 1
     THEN pc' = "raised" /\ sql' = sql
     ELSE pc' = "done" /\ sql' = SqlLines(df.columns, types)
  /\ UNCHANGED <<null, file, df, tpc, idx, acc, ret, types, completed, calls>>

---------------------------------------------------------------------------
(* Inputs *)

\* the sequences over S of length at most n
SeqsUpTo(S, n) == UNION {[1..k -> S] : k \in 0..n}

\* the state of the tasks of a table of n columns before any is called
TasksInit(n) ==
  /\ tpc = [c \in 1..n |-> "idle"]
  /\ idx = [c \in 1..n |-> 0]
  /\ acc = [c \in 1..n |-> InitAcc]
  /\ ret = [c \in 1..n |-> Unset]
  /\ types = [c \in 1..n |-> Unset]
  /\ calls = [c \in 1..n |-> 0]
  /\ completed = <<>>
  /\ sql = <<>>

\* the columns of the sample tables, two rows each
TableColumns ==
  { <<S1, SNA>>,
    <<<<"1", ".", "5">>, S0>>,
    <<<<"*", "1">>, S1>>,
    <<<<"1", "2", "8">>, <<"-", "1">>>>,
    <<SNA, SNA>>,
    <<S1, <<"i", "n", "f">>>> }

\* the null tokens a run is configured with: the default and "NA"
NullTokens == {S0, SNA}

\* run() on a table of up to MaxCols sample columns
Init ==
  /\ null \in NullTokens
  /\ \E n \in 1..MaxCols :
       /\ file \in [header : {Header(n)}, data : [1..n -> TableColumns]]
       /\ TasksInit(n)
  /\ df = NoFrame
  /\ pc = "read"

Next ==
  \/ ReadCsv
  \/ \E c \in Cols : Call(c)
  \/ \E c \in Cols : Iterate(c)
  \/ \E c \in Cols : Decide(c)
  \/ ToSql

Spec == Init /\ [][Next]_vars

---------------------------------------------------------------------------
(* One discover call on one column *)

\* the values around the tinyint bounds:
\*   ''  '0'  '127'  '128'  '-127'  '-128'
TinyBoundary ==
  { <<>>,
    <<"0">>,
    <<"1", "2", "7">>,
    <<"1", "2", "8">>,
    <<"-", "1", "2", "7">>,
    <<"-", "1", "2", "8">> }

\* the values around the smallint bounds:
\*   ''  '-1'  '32767'  '32768'  '-32767'  '-32768'
SmallBoundary ==
  { <<>>,
    <<"-", "1">>,
    <<"3", "2", "7", "6", "7">>,
    <<"3", "2", "7", "6", "8">>,
    <<"-", "3", "2", "7", "6", "7">>,
    <<"-", "3", "2", "7", "6", "8">> }

\* the values around the int bounds, and an upper-case exponent:
\*   ''  '1'  '2147483647'  '2147483648'  '-2147483647'  '-2147483648'  '1E5'
IntBoundary ==
  { <<>>,
    <<"1">>,
    <<"2", "1", "4", "7", "4", "8", "3", "6", "4", "7">>,
    <<"2", "1", "4", "7", "4", "8", "3", "6", "4", "8">>,
    <<"-", "2", "1", "4", "7", "4", "8", "3", "6", "4", "7">>,
    <<"-", "2", "1", "4", "7", "4", "8", "3", "6", "4", "8">>,
    <<"1", "E", "5">> }

\* fixed-point forms: trailing dot, trailing zeros, implicit leading dot:
\*   ''  '-1'  '1.'  '1.0'  '1.01'  '.01'  '1.50'  '-.5'
DecimalForms ==
  { <<>>,
    <<"-", "1">>,
    <<"1", ".">>,
    <<"1", ".", "0">>,
    <<"1", ".", "0", "1">>,
    <<".", "0", "1">>,
    <<"1", ".", "5", "0">>,
    <<"-", ".", "5">> }

\* nulls, a non-number, exponents in both cases, inf, a signed leading dot:
\*   ''  'nan'  '*1'  '1'  '5e-4'  '5E-4'  'inf'  '+.5'
Notations ==
  { <<>>,
    <<"n", "a", "n">>,
    <<"*", "1">>,
    <<"1">>,
    <<"5", "e", "-", "4">>,
    <<"5", "E", "-", "4">>,
    <<"i", "n", "f">>,
    <<"+", ".", "5">> }

\* integers and decimals together, a trailing blank, an expanding exponent:
\*   '128'  '12.5'  '1.0 '  '1e5'  '-0.0005'  'NaN'
Mixed ==
  { <<"1", "2", "8">>,
    <<"1", "2", ".", "5">>,
    <<"1", ".", "0", " ">>,
    <<"1", "e", "5">>,
    <<"-", "0", ".", "0", "0", "0", "5">>,
    <<"N", "a", "N">> }

Families == {TinyBoundary, SmallBoundary, IntBoundary, DecimalForms, Notations, Mixed}

\* the columns given to discover: up to MaxLen values of one family
Columns == UNION {SeqsUpTo(F, MaxLen) : F \in Families}

\* apply() over a DataFrame of one column, already read
InitDiscover ==
  /\ null = S0
  /\ \E values \in Columns :
       /\ file = [header |-> Header(1), data |-> <<values>>]
       /\ df = [columns |-> Header(1), data |-> <<values>>]
  /\ TasksInit(1)
  /\ pc = "discover"

NextDiscover ==
  \/ Call(1)
  \/ Iterate(1)
  \/ Decide(1)

SpecDiscover == InitDiscover /\ [][NextDiscover]_vars

\* the column of the call, whether the call has ended, and its outcome
Values == df.data[1]

Finished == tpc[1] \in {"done", "raised"}

Result == ret[1]

---------------------------------------------------------------------------
(* What the claims speak of *)

\* most zeros appended to a fractional part
MaxZeros == 2

SNaN == <<"n", "a", "n">>

\* the descriptors a call may return
IsDescriptor(t) ==
  \/ t \in {Lit("tinyint"), Lit("smallint"), Lit("int"), Lit("bigint"), Lit("string")}
  \/ Len(t) = 3 /\ t[1] = "decimal" /\ t[2] \in Nat /\ t[3] \in Nat

\* a null: the empty string, or a not-a-number literal
IsNullCell(v) == v = <<>> \/ (FloatParses(v) /\ IsNaN(v))

\* a value that passes the numeric-syntax check and is a finite number
IsFinite(v) ==
  /\ v # <<>>
  /\ FloatParses(v)
  /\ Lower(Unsigned(Strip(v))) \notin
       {<<"i", "n", "f">>, SNaN, <<"i", "n", "f", "i", "n", "i", "t", "y">>}

\* a value with an exponent marker
HasExponent(v) == IsFinite(v) /\ Find(v, {"e", "E"}) > 0

\* the plain decimal string of the exact value of a finite v
Plain(v) == FormatF(DecimalOf(v))

\* the fractional digits of the exact value, trailing zeros not counted
FracDigits(v) ==
  Bind(Split(Plain(v)),
       LAMBDA sp : IF Len(sp) = 1 THEN 0 ELSE Len(RStrip(sp[2], "0")))

\* the integer part of the exact value: its digits, and its signed value
IntDigits(v) == Len(Canon(Unsigned(Split(Plain(v))[1])))

IntValue(v) ==
  Bind(Split(Plain(v))[1], LAMBDA ip : Signed(HasMinus(ip), Canon(Unsigned(ip))))

\* the indices of the values of a column that are no nulls
NonNull(values) == {i \in 1..Len(values) : ~IsNullCell(values[i])}

\* every value is a null or a finite number, and one is no null
AllNumeric(values) ==
  /\ NonNull(values) # {}
  /\ \A i \in NonNull(values) : IsFinite(values[i])

\* the greatest of a non-empty set of naturals
MaxNat(S) == CHOOSE x \in S : \A y \in S : y <= x

\* the least and the greatest of a non-empty set of integers
MinInt(S) == CHOOSE x \in S : \A y \in S : IntLeq(x, y)

MaxInt(S) == CHOOSE x \in S : \A y \in S : IntLeq(y, x)

\* lo and hi lie in [-b, b]
Within(lo, hi, b) == IntLeq(<<"-">> \o b, lo) /\ IntLeq(hi, b)

\* the smallest-fitting integer type for a least value lo and a greatest hi,
\* as the specification states it
ClaimedRange(lo, hi) ==
  IF Within(lo, hi, <<"1", "2", "7">>) THEN Lit("tinyint")
  ELSE IF Within(lo, hi, <<"3", "2", "7", "6", "7">>) THEN Lit("smallint")
  ELSE IF Within(lo, hi, <<"2", "1", "4", "7", "4", "8", "3", "6", "4", "7">>) THEN Lit("int")
  ELSE Lit("bigint")

\* values with its i-th value replaced by w
Replace(values, i, w) == [values EXCEPT ![i] = w]

\* values with w inserted after its first k values
InsertAt(values, k, w) ==
  Slice(values, 1, k) \o <<w>> \o Slice(values, k + 1, Len(values))

\* the permutations of 1..n
Perms(n) == {p \in [1..n -> 1..n] : \A i, j \in 1..n : p[i] = p[j] => i = j}

\* an integer literal: a sign and digits
IsIntLit(v) == IsDigits(Unsigned(v))

\* a fixed-point literal with a dot and nothing but digits after it
IsFixedWithDot(v) ==
  /\ FloatParses(v)
  /\ Find(v, {"."}) > 0
  /\ AllDigits(Slice(v, Find(v, {"."}) + 1, Len(v)))

\* an integer literal n, or n. or n.0...0
IsIntegerForm(v) ==
  \/ IsIntLit(v)
  \/ /\ Find(v, {"."}) > 1
     /\ IsIntLit(Slice(v, 1, Find(v, {"."}) - 1))
     /\ FirstNot(Slice(v, Find(v, {"."}) + 1, Len(v)), "0") > Len(v) - Find(v, {"."})

\* the integer literal of an integer form
IntegerOf(v) == IntOf(Split(v)[1])

---------------------------------------------------------------------------
(* The claims *)

\* C1: discover never raises: every call ends by returning one of tinyint,
\* smallint, int, bigint, decimal(P, S) or string.
C1_NeverRaises ==
  Finished => tpc[1] = "done" /\ IsDescriptor(Result)

\* C2: a column with a non-empty value that fails the numeric-syntax check
\* is classified string, wherever the value stands.
C2_FailingValueGivesString ==
  (Finished /\ \E i \in 1..Len(Values) : Values[i] # <<>> /\ ~is_number(Values[i]))
    => Result = Lit("string")

\* C3: an all-numeric column with a non-null value and no fractional digits
\* gets the smallest-fitting integer type of its least and greatest value,
\* with the bounds 127, 32767 and 2147483647 on both sides.
C3_IntegerRange ==
  (/\ Finished
   /\ AllNumeric(Values)
   /\ \A i \in NonNull(Values) : FracDigits(Values[i]) = 0)
    => Result = ClaimedRange(MinInt({IntValue(Values[i]) : i \in NonNull(Values)}),
                             MaxInt({IntValue(Values[i]) : i \in NonNull(Values)}))

\* C4: an all-numeric column with a value that has fractional digits is
\* decimal(P, S), S the greatest count of fractional digits and P the
\* greatest count of integer digits plus S.
C4_DecimalPrecisionScale ==
  (/\ Finished
   /\ AllNumeric(Values)
   /\ \E i \in NonNull(Values) : FracDigits(Values[i]) > 0)
    => Result =
         DecimalType(MaxNat({IntDigits(Values[i]) : i \in NonNull(Values)})
                       + MaxNat({FracDigits(Values[i]) : i \in NonNull(Values)}),
                     MaxNat({FracDigits(Values[i]) : i \in NonNull(Values)}))

\* C5: a value with an exponent marker is classified as its exact
\* fixed-point expansion: replacing it by the plain decimal string of the
\* same value leaves the outcome unchanged.
C5_ExponentAsExpansion ==
  Finished =>
    \A i \in 1..Len(Values) :
      HasExponent(Values[i]) =>
        discover(Replace(Values, i, Plain(Values[i]))) = Result

\* C6: a column of nulls only (empty strings, not-a-number literals, or no
\* value at all) is tinyint, and inserting a null anywhere into a column
\* that has a non-null value leaves the outcome unchanged.
C6_NullsAreSkipped ==
  Finished =>
    /\ NonNull(Values) = {} => Result = Lit("tinyint")
    /\ NonNull(Values) # {} =>
         \A k \in 0..Len(Values) : \A w \in {<<>>, SNaN, <<"N", "a", "N">>} :
           discover(InsertAt(Values, k, w)) = Result

Nulled(column, token) ==
  [r \in 1..Len(column) |-> IF column[r] = token THEN <<>> ELSE column[r]]

\* C9: a cell that equals the configured null token reaches the classifier
\* as a null, so a column of numeric cells and token cells gets the numeric
\* type of its other cells.
C9_NullToken ==
  pc = "done" =>
    \A c \in Cols :
      (\A r \in 1..Len(file.data[c]) :
         file.data[c][r] = null \/ is_number(file.data[c][r]))
        => /\ df.data[c] = Nulled(file.data[c], null)
           /\ types[c] = discover(Nulled(file.data[c], null))

\* C10: the outcome does not depend on the order of the values: every
\* permutation of the column has the same outcome.
C10_OrderIndependent ==
  Finished =>
    \A p \in Perms(Len(Values)) :
      discover([i \in 1..Len(Values) |-> Values[p[i]]]) = Result

---------------------------------------------------------------------------
(* Reachable cases of the confirmed claims *)

C6_Witness ==
  /\ Finished
  /\ \E i \in 1..Len(Values) : Values[i] = SNaN
  /\ \E i \in 1..Len(Values) : Values[i] = <<>>
  /\ Result = DecimalType(5, 4)

====
